---------------------------- MODULE Spec2Model ----------------------------
(***************************************************************************)
(* Model of the card-game content pipeline scripts:                        *)
(*   scripts/add_tags.py                  keyword tagger (check_tags,      *)
(*                                        content_level, process_file and  *)
(*                                        the module-level run)            *)
(*   scripts/convert_spreadsheet_to_csv.py  spreadsheet converter          *)
(*                                        (smart_strip, process_xlsx,      *)
(*                                        process_ods)                     *)
(* A text is a sequence of one-character strings, so that the regular      *)
(* expressions of the tagger are evaluated character by character.         *)
(***************************************************************************)
EXTENDS Integers, Sequences, FiniteSets, TLC

-----------------------------------------------------------------------------
(* Characters and the regular-expression subset the tagger uses.           *)

UpperCase == <<"A", "B", "C", "D", "E", "F", "G", "H", "I", "J", "K", "L", "M",
               "N", "O", "P", "Q", "R", "S", "T", "U", "V", "W", "X", "Y", "Z">>
LowerCase == <<"a", "b", "c", "d", "e", "f", "g", "h", "i", "j", "k", "l", "m",
               "n", "o", "p", "q", "r", "s", "t", "u", "v", "w", "x", "y", "z">>
Digits == {"0", "1", "2", "3", "4", "5", "6", "7", "8", "9"}

Range(s) == {s[k] : k \in DOMAIN s}

\* \w of the re module: letters, digits and the underscore.
WordChars == Range(LowerCase) \cup Range(UpperCase) \cup Digits \cup {"_"}

IsWordChar(c) == c \in WordChars

\* \s of the re module, and the characters str.strip() removes.
Whitespace == {" ", "\t", "\n", "\r"}

\* re.IGNORECASE: characters are compared after case folding.
LowerOf == [c \in Range(UpperCase) |->
               LowerCase[CHOOSE k \in DOMAIN UpperCase : UpperCase[k] = c]]

Lower(c) == IF c \in DOMAIN LowerOf THEN LowerOf[c] ELSE c

\* Elements of a compiled pattern: a literal (re.escape'd) string, \s*, \s+, \b.
Lit(s) == [kind |-> "lit", lit |-> s]
SpaceStar == [kind |-> "s*", lit |-> <<>>]
SpacePlus == [kind |-> "s+", lit |-> <<>>]
WordB == [kind |-> "b", lit |-> <<>>]

\* \b at position i (between text[i-1] and text[i]).
WordBoundary(text, i) ==
    (i > 1 /\ IsWordChar(text[i - 1])) # (i <= Len(text) /\ IsWordChar(text[i]))

LitAt(lit, text, i) ==
    /\ i + Len(lit) - 1 <= Len(text)
    /\ \A k \in 1..Len(lit) : Lower(text[i + k - 1]) = Lower(lit[k])

AllSpace(text, i, j) == \A k \in i..j : text[k] \in Whitespace

\* Whether elems[n..] matches text starting at position i (backtracking over \s*, \s+).
RECURSIVE MatchAt(_, _, _, _)
MatchAt(elems, n, text, i) ==
    IF n > Len(elems) THEN TRUE
    ELSE LET e == elems[n]
         IN  CASE e.kind = "b" -> WordBoundary(text, i) /\ MatchAt(elems, n + 1, text, i)
               [] e.kind = "lit" ->
                      LitAt(e.lit, text, i) /\ MatchAt(elems, n + 1, text, i + Len(e.lit))
               [] e.kind = "s*" -> \E j \in i..(Len(text) + 1) :
                                       AllSpace(text, i, j - 1) /\ MatchAt(elems, n + 1, text, j)
               [] e.kind = "s+" -> \E j \in (i + 1)..(Len(text) + 1) :
                                       AllSpace(text, i, j - 1) /\ MatchAt(elems, n + 1, text, j)

\* Whether the single element e can match at position i (\s* and \s+ are left
\* to MatchAt).  Search tries MatchAt only where the first element can match.
ElemAt(e, text, i) ==
    CASE e.kind = "b" -> WordBoundary(text, i)
      [] e.kind = "lit" -> LitAt(e.lit, text, i)
      [] OTHER -> TRUE

\* pattern.search(text): a pattern is a sequence of alternatives (a|b|...).
Search(pattern, text) ==
    \E a \in DOMAIN pattern : \E i \in 1..(Len(text) + 1) :
        ElemAt(pattern[a][1], text, i) /\ MatchAt(pattern[a], 1, text, i)

\* Mutant: no \b before the word.
word_regex_unanchored(word) == << <<Lit(word), WordB>> >>

\* _word_regex: r'\b' + re.escape(word) + r'\b', re.IGNORECASE
word_regex(word) == << <<WordB, Lit(word), WordB>> >>

\* _compile_keywords: [_word_regex(k) for k in keywords]
RECURSIVE compile_keywords(_)
compile_keywords(keywords) ==
    IF keywords = <<>> THEN <<>>
    ELSE <<word_regex(Head(keywords))>> \o compile_keywords(Tail(keywords))

\* any(p.search(text) for p in patterns), also the for/break loops of check_tags
AnySearch(patterns, text) == \E k \in DOMAIN patterns : Search(patterns[k], text)

\* str.strip()
strip(s) ==
    LET keep == {k \in DOMAIN s : s[k] \notin Whitespace}
    IN  IF keep = {} THEN <<>>
        ELSE LET lo == CHOOSE k \in keep : \A m \in keep : k <= m
                 hi == CHOOSE k \in keep : \A m \in keep : k >= m
             IN  SubSeq(s, lo, hi)

-----------------------------------------------------------------------------
(* add_tags.py: keyword lists and exclusion patterns.                      *)

SEXUALLY_EXPLICIT_KEYWORDS ==
    << <<"s", "e", "x">>, <<"c", "u", "m">>, <<"m", "a", "s", "t", "u", "r", "b", "a", "t", "e">>,
       <<"m", "a", "s", "t", "u", "r", "b", "a", "t", "i", "o", "n">>, <<"p", "o", "r", "n">>,
       <<"o", "r", "g", "a", "s", "m">>, <<"e", "r", "e", "c", "t", "i", "o", "n">>,
       <<"v", "a", "g", "i", "n", "a">>, <<"p", "e", "n", "i", "s">>,
       <<"h", "a", "n", "d", "j", "o", "b">>, <<"d", "i", "l", "d", "o">>,
       <<"v", "i", "b", "r", "a", "t", "o", "r">>, <<"h", "o", "r", "n", "y">>,
       <<"n", "a", "k", "e", "d">>, <<"n", "u", "d", "e">>, <<"d", "i", "c", "k">>,
       <<"c", "o", "c", "k">>, <<"p", "u", "s", "s", "y">>,
       <<"v", "i", "r", "g", "i", "n", "i", "t", "y">>, <<"v", "i", "r", "g", "i", "n">>,
       <<"b", "l", "o", "w", "j", "o", "b">>, <<"b", "l", "o", "w", " ", "j", "o", "b">>,
       <<"s", "e", "x", " ", "p", "o", "s", "i", "t", "i", "o", "n">>,
       <<"g", "o", " ", "d", "o", "w", "n", " ", "o", "n">>,
       <<"a", "n", "a", "l", " ", "s", "e", "x">>, <<"o", "r", "a", "l", " ", "s", "e", "x">>,
       <<"a", "s", "s">>, <<"b", "u", "t", "t">> >>

SEXIST_KEYWORDS ==
    << <<"b", "i", "t", "c", "h">>, <<"s", "l", "u", "t">>, <<"w", "h", "o", "r", "e">>,
       <<"c", "u", "n", "t">> >>

RACIST_KEYWORDS ==
    << <<"s", "l", "a", "v", "e", "r", "y">>, <<"w", "h", "i", "t", "e", " ", "m", "a", "n">>,
       <<"b", "l", "a", "c", "k", " ", "m", "a", "n">>,
       <<"b", "l", "a", "c", "k", " ", "w", "o", "m", "a", "n">>,
       <<"a", "b", "o", "r", "i", "g", "i", "n", "a", "l">>, <<"t", "r", "i", "b", "e">>,
       <<"m", "e", "x", "i", "c", "a", "n">>, <<"r", "a", "c", "i", "s", "t">>,
       <<"r", "a", "c", "i", "s", "m">> >>

PROFANITY_KEYWORDS ==
    << <<"s", "h", "i", "t">>, <<"f", "u", "c", "k">>, <<"f", "u", "c", "k", "i", "n", "g">>,
       <<"f", "u", "c", "k", "e", "d">>, <<"d", "a", "m", "n">>, <<"h", "e", "l", "l">>,
       <<"a", "s", "s">>, <<"b", "a", "s", "t", "a", "r", "d">>, <<"c", "r", "a", "p">> >>

VIOLENCE_KEYWORDS ==
    << <<"k", "i", "l", "l">>, <<"k", "i", "l", "l", "i", "n", "g">>,
       <<"m", "u", "r", "d", "e", "r">>, <<"m", "u", "r", "d", "e", "r", "e", "d">>,
       <<"d", "e", "a", "t", "h">>, <<"b", "l", "o", "o", "d">>, <<"b", "l", "o", "o", "d", "y">>,
       <<"t", "o", "r", "t", "u", "r", "e">>, <<"r", "a", "p", "e">>, <<"r", "a", "p", "e", "d">>,
       <<"a", "b", "u", "s", "e">>, <<"a", "b", "u", "s", "e", "d">>,
       <<"v", "i", "o", "l", "e", "n", "c", "e">>, <<"w", "e", "a", "p", "o", "n">>,
       <<"w", "e", "a", "p", "o", "n", "s">>, <<"g", "u", "n">>, <<"g", "u", "n", "s">>,
       <<"k", "n", "i", "f", "e">>, <<"b", "o", "m", "b">>, <<"b", "o", "m", "b", "s">>,
       <<"s", "t", "a", "b">>, <<"s", "t", "a", "b", "b", "i", "n", "g">>,
       <<"s", "h", "o", "o", "t">>, <<"s", "h", "o", "o", "t", "i", "n", "g">> >>

DRUGS_KEYWORDS ==
    << <<"c", "o", "c", "a", "i", "n", "e">>, <<"h", "e", "r", "o", "i", "n">>,
       <<"m", "e", "t", "h">>, <<"m", "a", "r", "i", "j", "u", "a", "n", "a">>, <<"l", "s", "d">>,
       <<"c", "i", "g", "a", "r", "e", "t", "t", "e">>,
       <<"c", "i", "g", "a", "r", "e", "t", "t", "e", "s">>,
       <<"a", "l", "c", "o", "h", "o", "l">>, <<"d", "r", "u", "n", "k">>,
       <<"t", "r", "i", "p", "p", "i", "n", "g", " ", "o", "n", " ", "a", "c", "i", "d">>,
       <<"g", "e", "t", "t", "i", "n", "g", " ", "h", "i", "g", "h">>,
       <<"g", "e", "t", "t", "i", "n", "g", " ", "d", "r", "u", "n", "k">>,
       <<"d", "r", "u", "g", "s">>, <<"o", "v", "e", "r", "d", "o", "s", "e">> >>

\* SEXUALLY_EXPLICIT_EXCLUDE = chicken\s*breast|breast\s*stroke|oral\s*exam|oral\s*presentation|oral\s*history
SEXUALLY_EXPLICIT_EXCLUDE ==
    << << Lit(<<"c", "h", "i", "c", "k", "e", "n">>), SpaceStar, Lit(<<"b", "r", "e", "a", "s", "t">>) >>,
      << Lit(<<"b", "r", "e", "a", "s", "t">>), SpaceStar, Lit(<<"s", "t", "r", "o", "k", "e">>) >>,
      << Lit(<<"o", "r", "a", "l">>), SpaceStar, Lit(<<"e", "x", "a", "m">>) >>,
      << Lit(<<"o", "r", "a", "l">>), SpaceStar, Lit(<<"p", "r", "e", "s", "e", "n", "t", "a", "t", "i", "o", "n">>) >>,
      << Lit(<<"o", "r", "a", "l">>), SpaceStar, Lit(<<"h", "i", "s", "t", "o", "r", "y">>) >> >>

\* RACIST_EXCLUDE = primitive\s+version|indian\s+food|indian\s+cuisine|indian\s+summer|asian\s+cuisine|asian\s+food|tribe\s+called
RACIST_EXCLUDE ==
    << << Lit(<<"p", "r", "i", "m", "i", "t", "i", "v", "e">>), SpacePlus, Lit(<<"v", "e", "r", "s", "i", "o", "n">>) >>,
      << Lit(<<"i", "n", "d", "i", "a", "n">>), SpacePlus, Lit(<<"f", "o", "o", "d">>) >>,
      << Lit(<<"i", "n", "d", "i", "a", "n">>), SpacePlus, Lit(<<"c", "u", "i", "s", "i", "n", "e">>) >>,
      << Lit(<<"i", "n", "d", "i", "a", "n">>), SpacePlus, Lit(<<"s", "u", "m", "m", "e", "r">>) >>,
      << Lit(<<"a", "s", "i", "a", "n">>), SpacePlus, Lit(<<"c", "u", "i", "s", "i", "n", "e">>) >>,
      << Lit(<<"a", "s", "i", "a", "n">>), SpacePlus, Lit(<<"f", "o", "o", "d">>) >>,
      << Lit(<<"t", "r", "i", "b", "e">>), SpacePlus, Lit(<<"c", "a", "l", "l", "e", "d">>) >> >>

\* VIOLENCE_EXCLUDE = dead\s+tired|dead\s+end|buzzkill|overkill|kill\s+two\s+birds|glue\s+gun|nail\s+gun|blood\s+orange|blood\s+type
VIOLENCE_EXCLUDE ==
    << << Lit(<<"d", "e", "a", "d">>), SpacePlus, Lit(<<"t", "i", "r", "e", "d">>) >>,
      << Lit(<<"d", "e", "a", "d">>), SpacePlus, Lit(<<"e", "n", "d">>) >>,
      << Lit(<<"b", "u", "z", "z", "k", "i", "l", "l">>) >>,
      << Lit(<<"o", "v", "e", "r", "k", "i", "l", "l">>) >>,
      << Lit(<<"k", "i", "l", "l">>), SpacePlus, Lit(<<"t", "w", "o">>), SpacePlus, Lit(<<"b", "i", "r", "d", "s">>) >>,
      << Lit(<<"g", "l", "u", "e">>), SpacePlus, Lit(<<"g", "u", "n">>) >>,
      << Lit(<<"n", "a", "i", "l">>), SpacePlus, Lit(<<"g", "u", "n">>) >>,
      << Lit(<<"b", "l", "o", "o", "d">>), SpacePlus, Lit(<<"o", "r", "a", "n", "g", "e">>) >>,
      << Lit(<<"b", "l", "o", "o", "d">>), SpacePlus, Lit(<<"t", "y", "p", "e">>) >> >>

\* DRUGS_EXCLUDE = weed\s+killer|weeding|drug\s+store|pharmacy|vitamin\s+pills|sleeping\s+pills\b|pain\s+relief
DRUGS_EXCLUDE ==
    << << Lit(<<"w", "e", "e", "d">>), SpacePlus, Lit(<<"k", "i", "l", "l", "e", "r">>) >>,
      << Lit(<<"w", "e", "e", "d", "i", "n", "g">>) >>,
      << Lit(<<"d", "r", "u", "g">>), SpacePlus, Lit(<<"s", "t", "o", "r", "e">>) >>,
      << Lit(<<"p", "h", "a", "r", "m", "a", "c", "y">>) >>,
      << Lit(<<"v", "i", "t", "a", "m", "i", "n">>), SpacePlus, Lit(<<"p", "i", "l", "l", "s">>) >>,
      << Lit(<<"s", "l", "e", "e", "p", "i", "n", "g">>), SpacePlus, Lit(<<"p", "i", "l", "l", "s">>), WordB >>,
      << Lit(<<"p", "a", "i", "n">>), SpacePlus, Lit(<<"r", "e", "l", "i", "e", "f">>) >> >>


\* _SEX, _SEXIST, _RACIST, _PROFANITY, _VIOLENCE, _DRUGS
SEX_PATTERNS == compile_keywords(SEXUALLY_EXPLICIT_KEYWORDS)
SEXIST_PATTERNS == compile_keywords(SEXIST_KEYWORDS)
RACIST_PATTERNS == compile_keywords(RACIST_KEYWORDS)
PROFANITY_PATTERNS == compile_keywords(PROFANITY_KEYWORDS)
VIOLENCE_PATTERNS == compile_keywords(VIOLENCE_KEYWORDS)
DRUGS_PATTERNS == compile_keywords(DRUGS_KEYWORDS)

IfTag(cond, tag) == IF cond THEN <<tag>> ELSE <<>>

\* Mutant: the Sexually Explicit and Violence exclusion patterns are not looked at.
check_tags_no_exclude(text) ==
    IF text = <<>> \/ strip(text) = <<>> THEN <<>>
    ELSE   IfTag(AnySearch(SEX_PATTERNS, text),
                 "Sexually Explicit")
        \o IfTag(AnySearch(SEXIST_PATTERNS, text), "Sexist")
        \o IfTag(~Search(RACIST_EXCLUDE, text) /\ AnySearch(RACIST_PATTERNS, text), "Racist")
        \o IfTag(AnySearch(PROFANITY_PATTERNS, text), "Profanity")
        \o IfTag(AnySearch(VIOLENCE_PATTERNS, text),
                 "Violence")
        \o IfTag(~Search(DRUGS_EXCLUDE, text) /\ AnySearch(DRUGS_PATTERNS, text), "Drugs")

\* Mutant: Profanity is appended before Racist.
check_tags_profanity_first(text) ==
    IF text = <<>> \/ strip(text) = <<>> THEN <<>>
    ELSE   IfTag(~Search(SEXUALLY_EXPLICIT_EXCLUDE, text) /\ AnySearch(SEX_PATTERNS, text),
                 "Sexually Explicit")
        \o IfTag(AnySearch(SEXIST_PATTERNS, text), "Sexist")
        \o IfTag(AnySearch(PROFANITY_PATTERNS, text), "Profanity")
        \o IfTag(~Search(RACIST_EXCLUDE, text) /\ AnySearch(RACIST_PATTERNS, text), "Racist")
        \o IfTag(~Search(VIOLENCE_EXCLUDE, text) /\ AnySearch(VIOLENCE_PATTERNS, text),
                 "Violence")
        \o IfTag(~Search(DRUGS_EXCLUDE, text) /\ AnySearch(DRUGS_PATTERNS, text), "Drugs")

check_tags(text) ==
    IF text = <<>> \/ strip(text) = <<>> THEN <<>>
    ELSE   IfTag(~Search(SEXUALLY_EXPLICIT_EXCLUDE, text) /\ AnySearch(SEX_PATTERNS, text),
                 "Sexually Explicit")
        \o IfTag(AnySearch(SEXIST_PATTERNS, text), "Sexist")
        \o IfTag(~Search(RACIST_EXCLUDE, text) /\ AnySearch(RACIST_PATTERNS, text), "Racist")
        \o IfTag(AnySearch(PROFANITY_PATTERNS, text), "Profanity")
        \o IfTag(~Search(VIOLENCE_EXCLUDE, text) /\ AnySearch(VIOLENCE_PATTERNS, text),
                 "Violence")
        \o IfTag(~Search(DRUGS_EXCLUDE, text) /\ AnySearch(DRUGS_PATTERNS, text), "Drugs")

CONTENT_LEVEL_SEVERE == {"Sexually Explicit", "Sexist", "Racist", "Violence"}
CONTENT_LEVEL_MEDIUM == {"Drugs"}
CONTENT_LEVEL_MILD == {"Profanity"}

\* Mutant: the mild tier is looked at before the severe and the medium one.
content_level_mild_first(tags) ==
    LET tag_set == Range(tags)
    IN  IF tag_set \cap CONTENT_LEVEL_MILD # {} THEN "mild"
        ELSE IF tag_set \cap CONTENT_LEVEL_SEVERE # {} THEN "severe"
        ELSE IF tag_set \cap CONTENT_LEVEL_MEDIUM # {} THEN "medium"
        ELSE "basic"

content_level(tags) ==
    LET tag_set == Range(tags)
    IN  IF tag_set \cap CONTENT_LEVEL_SEVERE # {} THEN "severe"
        ELSE IF tag_set \cap CONTENT_LEVEL_MEDIUM # {} THEN "medium"
        ELSE IF tag_set \cap CONTENT_LEVEL_MILD # {} THEN "mild"
        ELSE "basic"

-----------------------------------------------------------------------------
(* Card texts: at most MaxWords words, joined by separators.               *)

MaxWords == 2

Words ==
    { <<>>,
      <<"a", "s", "s">>, <<"c", "l", "a", "s", "s">>, <<"b", "i", "t", "c", "h">>,
      <<"b", "l", "o", "w">>, <<"j", "o", "b">>,
      <<"G", "u", "n">>, <<"g", "l", "u", "e">>,
      <<"l", "s", "d">>, <<"p", "h", "a", "r", "m", "a", "c", "y">>,
      <<"t", "r", "i", "b", "e">>, <<"c", "a", "l", "l", "e", "d">>,
      <<"o", "r", "a", "l", " ", "e", "x", "a", "m">> }

Separators == { <<" ">>, <<"\n">> }

RECURSIVE TextsOf(_)
TextsOf(n) ==
    IF n <= 1 THEN Words
    ELSE {t \o s \o w : t \in TextsOf(n - 1), s \in Separators, w \in Words}

Texts == TextsOf(MaxWords)

-----------------------------------------------------------------------------
(* add_tags.py: process_file on a table (the rows csv.reader returns, the  *)
(* rows csv.writer is given).  A header cell, a level and a tag are        *)
(* strings; the first cell of a data row is a card text.                   *)

Min(a, b) == IF a <= b THEN a ELSE b

\* s[:n]
Take(s, n) == SubSeq(s, 1, Min(n, Len(s)))

\* [c] * n
Repeat(c, n) == [k \in 1..n |-> c]

\* Maximum number of tag columns: [''] * 10, tag_values[:10], (...)[:10]
TagColumns == 10

\* Upper end of the header slice row[1:12]
HeaderSliceEnd == 12

\* Lines 150-155: the header row.
header_row(row) ==
    <<IF row # <<>> THEN row[1] ELSE "Card text", "Level">>
    \o Take(IF Len(row) > 1 THEN SubSeq(row, 2, Min(HeaderSliceEnd, Len(row)))
                           ELSE Repeat("", TagColumns),
            TagColumns)

\* Mutant: a row of fewer than 12 columns is skipped too.
skipped_short(row) == Len(row) < TagColumns + 2 \/ row[1] = <<>>

\* Lines 157-158: the rows the loop skips.
skipped(row) == row = <<>> \/ row[1] = <<>>

\* Lines 160-170: the output row of a retained data row.
output_row(row) ==
    LET card_text == row[1]
        tgs == check_tags(card_text)
        lvl == content_level(tgs)
        tag_values == tgs \o Repeat("", TagColumns - Len(tgs))
    IN  <<card_text, lvl>> \o Take(tag_values, TagColumns)

\* Lines 148-170: output_rows, built from rows[i..] (1-based).
RECURSIVE output_rows_from(_, _)
output_rows_from(rows, i) ==
    IF i > Len(rows) THEN <<>>
    ELSE (IF i = 1 THEN <<header_row(rows[i])>>
          ELSE IF skipped(rows[i]) THEN <<>>
          ELSE <<output_row(rows[i])>>)
         \o output_rows_from(rows, i + 1)

\* s[::-1]
Reverse(s) == [k \in DOMAIN s |-> s[Len(s) + 1 - k]]

\* Mutant: the data rows are written in reverse order.
output_rows_reversed(rows) ==
    LET out == output_rows_from(rows, 1)
    IN  IF out = <<>> THEN <<>> ELSE <<Head(out)>> \o Reverse(Tail(out))

output_rows(rows) == output_rows_from(rows, 1)

-----------------------------------------------------------------------------
(* convert_spreadsheet_to_csv.py                                           *)

\* text.split('\n')
RECURSIVE split_lines(_)
split_lines(s) ==
    IF \A k \in DOMAIN s : s[k] # "\n" THEN <<s>>
    ELSE LET n == CHOOSE k \in DOMAIN s : s[k] = "\n" /\ \A m \in 1..(k - 1) : s[m] # "\n"
         IN  <<SubSeq(s, 1, n - 1)>> \o split_lines(SubSeq(s, n + 1, Len(s)))

\* '\n'.join(lines)
RECURSIVE join_lines(_)
join_lines(lines) ==
    IF lines = <<>> THEN <<>>
    ELSE IF Len(lines) = 1 THEN lines[1]
    ELSE lines[1] \o <<"\n">> \o join_lines(Tail(lines))

\* while lines and not lines[0].strip(): lines.pop(0)
RECURSIVE drop_leading_blank(_)
drop_leading_blank(lines) ==
    IF lines # <<>> /\ strip(lines[1]) = <<>> THEN drop_leading_blank(Tail(lines))
    ELSE lines

\* while lines and not lines[-1].strip(): lines.pop()
RECURSIVE drop_trailing_blank(_)
drop_trailing_blank(lines) ==
    IF lines # <<>> /\ strip(lines[Len(lines)]) = <<>>
    THEN drop_trailing_blank(SubSeq(lines, 1, Len(lines) - 1))
    ELSE lines

smart_strip(s) ==
    IF s = <<>> THEN <<>>
    ELSE LET lines == drop_trailing_blank(drop_leading_blank(split_lines(s)))
         IN  join_lines([k \in DOMAIN lines |-> strip(lines[k])])

\* A font: None, or its bold, italic and underline flags.
NoFont == [set |-> FALSE, b |-> FALSE, i |-> FALSE, u |-> FALSE]
Font(b, i, u) == [set |-> TRUE, b |-> b, i |-> i, u |-> u]

\* Lines 81-88 and 100-106: markdown for bold, italic, underline, in this order.
apply_font(s, font) ==
    LET bold == IF font.set /\ font.b THEN <<"*", "*">> \o s \o <<"*", "*">> ELSE s
        ital == IF font.set /\ font.i THEN <<"*">> \o bold \o <<"*">> ELSE bold
    IN  IF font.set /\ font.u
        THEN <<"<", "u", ">">> \o ital \o <<"<", "/", "u", ">">>
        ELSE ital

\* A cell: value None, a CellRichText (items: TextBlock or str), or a plain value.
NoneCell == [kind |-> "none", value |-> <<>>, items |-> <<>>, font |-> NoFont]
PlainCell(s, font) == [kind |-> "plain", value |-> s, items |-> <<>>, font |-> font]
RichCell(items) == [kind |-> "rich", value |-> <<>>, items |-> items, font |-> NoFont]
TextBlock(s, font) == [block |-> TRUE, text |-> s, font |-> font]
StrItem(s) == [block |-> FALSE, text |-> s, font |-> NoFont]

RECURSIVE rich_items_markdown(_)
rich_items_markdown(items) ==
    IF items = <<>> THEN <<>>
    ELSE LET item == Head(items)
         IN  (IF item.block THEN apply_font(item.text, item.font) ELSE item.text)
             \o rich_items_markdown(Tail(items))

convert_rich_text_to_markdown(cell) ==
    IF cell.kind = "none" THEN <<>>
    ELSE IF cell.kind = "rich" THEN rich_items_markdown(cell.items)
    ELSE apply_font(cell.value, cell.font)

\* teletype.extractText(cell): the text of the cell, without its formatting.
RECURSIVE items_text(_)
items_text(items) ==
    IF items = <<>> THEN <<>> ELSE Head(items).text \o items_text(Tail(items))

extractText(cell) ==
    IF cell.kind = "none" THEN <<>>
    ELSE IF cell.kind = "rich" THEN items_text(cell.items)
    ELSE cell.value

\* str.lower()
lower(s) == [k \in DOMAIN s |-> Lower(s[k])]

\* needle in s
Contains(needle, s) ==
    \E i \in 1..(Len(s) - Len(needle) + 1) : SubSeq(s, i, i + Len(needle) - 1) = needle

\* The text of a cell as the given format's reader returns it.
cell_text(format, cell) ==
    IF format = "xlsx" THEN convert_rich_text_to_markdown(cell) ELSE extractText(cell)

\* Lines 132-134 / 219
row_label(format, row) == lower(strip(cell_text(format, row[1])))

\* Lines 137-138 / 222
row_card_text(format, row) == smart_strip(cell_text(format, row[2]))

\* Lines 141-144 / 225-227
row_extra_text(format, row) ==
    IF Len(row) > 2 THEN smart_strip(cell_text(format, row[3])) ELSE <<>>

\* Lines 147-155 / 230-238
full_text(card_text, extra_text) ==
    IF extra_text # <<>>
    THEN IF card_text # <<>> /\ card_text[Len(card_text)] = "\n"
         THEN card_text \o extra_text
         ELSE card_text \o <<" ">> \o extra_text
    ELSE card_text

\* Mutant: a row is added without the check that its card text is not empty.
row_cards_unchecked(format, row, which) ==
    IF Len(row) < 2 THEN <<>>
    ELSE LET label == row_label(format, row)
             card_text == row_card_text(format, row)
             is_prompt == Contains(<<"p", "r", "o", "m", "p", "t">>, label)
             is_response == Contains(<<"r", "e", "s", "p", "o", "n", "s", "e">>, label)
             hit == IF which = "prompt" THEN is_prompt ELSE ~is_prompt /\ is_response
         IN  IF hit
             THEN << <<full_text(card_text, row_extra_text(format, row))>> >>
             ELSE <<>>

\* Lines 129-166 / 215-249: the cards one row adds to prompt_cards (which =
\* "prompt") or to response_cards (which = "response").
row_cards(format, row, which) ==
    IF Len(row) < 2 THEN <<>>
    ELSE LET label == row_label(format, row)
             card_text == row_card_text(format, row)
             is_prompt == Contains(<<"p", "r", "o", "m", "p", "t">>, label)
             is_response == Contains(<<"r", "e", "s", "p", "o", "n", "s", "e">>, label)
             hit == IF which = "prompt" THEN is_prompt ELSE ~is_prompt /\ is_response
         IN  IF card_text # <<>> /\ hit
             THEN << <<full_text(card_text, row_extra_text(format, row))>> >>
             ELSE <<>>

\* Lines 172, 180, 255, 263: the header row writer.writerow is given.
CSV_HEADER ==
    <<"Card Text", "Tag1", "Tag2", "Tag3", "Tag4", "Tag5",
      "Tag6", "Tag7", "Tag8", "Tag9", "Tag10">>

\* Lines 169-173 / 177-181: the rows written for a non-empty card list.
csv_rows(cards) == <<CSV_HEADER>> \o cards

-----------------------------------------------------------------------------
(* State.  before holds the files as the current run found them; passes    *)
(* records, per path, the rows each process_file call read and wrote.      *)

VARIABLES
    text, tags, level, phase,          \* one call of check_tags / content_level
    files, pc, runs, before, passes,   \* runs of add_tags.py
    format, sheet, row_idx, prompt_cards, response_cards, out, cpc
                                       \* one call of process_xlsx / process_ods

tvars == <<text, tags, level, phase>>
rvars == <<files, pc, runs, before, passes>>
cvars == <<format, sheet, row_idx, prompt_cards, response_cards, out, cpc>>
vars == <<tvars, rvars, cvars>>

\* The two fixed paths of lines 196-197, in the order they are processed.
FILENAMES == <<"data/prompt_cards.csv", "data/response_cards.csv">>

\* A file on disk with the rows csv.reader returns for it, and a path with no
\* readable file behind it.
File(rows) == [exists |-> TRUE, rows |-> rows]
Missing == [exists |-> FALSE, rows |-> <<>>]

\* An output path the converter has not written.
NotWritten == Missing

IdleTags == text = <<>> /\ tags = <<>> /\ level = "none" /\ phase = "idle"

IdleRun ==
    /\ files = [f \in Range(FILENAMES) |-> Missing]
    /\ before = files
    /\ passes = [f \in Range(FILENAMES) |-> <<>>]
    /\ pc = "idle"
    /\ runs = 0

IdleConv ==
    /\ format = "none"
    /\ sheet = <<>>
    /\ row_idx = 0
    /\ prompt_cards = <<>>
    /\ response_cards = <<>>
    /\ out = [which \in {"prompt", "response"} |-> NotWritten]
    /\ cpc = "idle"

-----------------------------------------------------------------------------
(* check_tags and content_level on one text.                               *)

InitTags ==
    /\ text \in Texts
    /\ tags = <<>>
    /\ level = "none"
    /\ phase = "input"
    /\ IdleRun
    /\ IdleConv

CheckTags ==
    /\ phase = "input"
    /\ tags' = check_tags(text)
    /\ phase' = "tagged"
    /\ UNCHANGED <<text, level, rvars, cvars>>

ContentLevel ==
    /\ phase = "tagged"
    /\ level' = content_level(tags)
    /\ phase' = "levelled"
    /\ UNCHANGED <<text, tags, rvars, cvars>>

NextTags == CheckTags \/ ContentLevel

SpecTags == InitTags /\ [][NextTags]_vars

-----------------------------------------------------------------------------
(* Runs of add_tags.py over the two card files.                            *)

\* Data rows of the prompt file, and runs of the script.
MaxRows == 2
MaxRuns == 2

InputHeaders ==
    { <<>>,
      <<"Card Text">>,
      <<"Card Text", "Tag1">>,
      CSV_HEADER,
      <<"CardText", "Level", "Tag1", "Tag2", "Tag3", "Tag4", "Tag5",
        "Tag6", "Tag7", "Tag8", "Tag9", "Tag10">> }

InputRows ==
    { <<>>,
      << <<>>, "x" >>,
      << <<"a", "s", "s">> >>,
      << <<"d", "r", "u", "n", "k">>, "x" >>,
      << <<"H", "e", "l", "l">>, "basic" >>,
      << <<"j", "o", "b">>, "severe", "Racist", "", "", "", "", "", "", "", "", "" >> }

RECURSIVE RowLists(_)
RowLists(n) ==
    IF n = 0 THEN {<<>>}
    ELSE {<<>>} \cup {<<r>> \o rs : r \in InputRows, rs \in RowLists(n - 1)}

InputTables == {<<>>} \cup {<<h>> \o rs : h \in InputHeaders, rs \in RowLists(MaxRows)}

\* The prompt file ranges over every input table; the response file, which
\* process_file treats alike, over a missing file, an empty one and one card.
PromptFiles == {File(t) : t \in InputTables} \cup {Missing}
ResponseFiles == {Missing, File(<<>>), File(<<CSV_HEADER, << <<"a", "s", "s">> >> >>)}

Init ==
    /\ files \in [Range(FILENAMES) -> PromptFiles \cup ResponseFiles]
    /\ files[FILENAMES[1]] \in PromptFiles
    /\ files[FILENAMES[2]] \in ResponseFiles
    /\ before = files
    /\ passes = [f \in Range(FILENAMES) |-> <<>>]
    /\ pc = FILENAMES[1]
    /\ runs = 1
    /\ IdleTags
    /\ IdleConv

\* Line 143: open(filename, 'r') raises; the exception ends the script.
ReadError(n) ==
    /\ pc = FILENAMES[n]
    /\ ~files[FILENAMES[n]].exists
    /\ pc' = "aborted"
    /\ UNCHANGED <<files, runs, before, passes, tvars, cvars>>

\* Lines 138-175: process_file(FILENAMES[n]) reads the rows, builds output_rows and
\* writes them back.
process_file(n) ==
    LET filename == FILENAMES[n]
        rows == files[filename].rows
    IN  /\ pc = filename
        /\ files[filename].exists
        /\ files' = [files EXCEPT ![filename] = File(output_rows(rows))]
        /\ passes' = [passes EXCEPT ![filename] =
                          Append(@, [rows |-> rows, output_rows |-> files'[filename].rows])]
        /\ pc' = IF n < Len(FILENAMES) THEN FILENAMES[n + 1] ELSE "end"
        /\ UNCHANGED <<runs, before, tvars, cvars>>

\* Line 199: print('All files processed!')
AllProcessed ==
    /\ pc = "end"
    /\ pc' = "done"
    /\ UNCHANGED <<files, runs, before, passes, tvars, cvars>>

\* The script is run again on the files the previous run left.
RunAgain ==
    /\ pc \in {"done", "aborted"}
    /\ runs < MaxRuns
    /\ runs' = runs + 1
    /\ before' = files
    /\ pc' = FILENAMES[1]
    /\ UNCHANGED <<files, passes, tvars, cvars>>

Next ==
    \/ \E n \in DOMAIN FILENAMES : ReadError(n)
    \/ \E n \in DOMAIN FILENAMES : process_file(n)
    \/ AllProcessed
    \/ RunAgain

Spec == Init /\ [][Next]_vars

-----------------------------------------------------------------------------
(* One call of process_xlsx or process_ods.                                *)

MaxSheetRows == 2

Bold == Font(TRUE, FALSE, FALSE)
ItalicUnderline == Font(FALSE, TRUE, TRUE)

LabelCells ==
    { NoneCell,
      PlainCell(<<"P", "r", "o", "m", "p", "t", " ">>, NoFont),
      PlainCell(<<"r", "e", "s", "p", "o", "n", "s", "e">>, Bold) }

CardCells ==
    { NoneCell,
      PlainCell(<<" ", "\n", " ">>, NoFont),
      PlainCell(<<"\n", " ", "a", "\n", "b", " ", "\n">>, NoFont),
      RichCell(<<TextBlock(<<"c">>, ItalicUnderline), StrItem(<<" ">>)>>) }

ExtraCells ==
    { NoneCell,
      PlainCell(<<"d", " ">>, Bold) }

SheetRows ==
    {<<>>} \cup {<<l>> : l \in LabelCells}
    \cup {<<l, c>> : l \in LabelCells, c \in CardCells}
    \cup {<<l, c, e>> : l \in LabelCells, c \in CardCells, e \in ExtraCells}

RECURSIVE Sheets(_)
Sheets(n) ==
    IF n = 0 THEN {<<>>}
    ELSE {<<>>} \cup {<<r>> \o s : r \in SheetRows, s \in Sheets(n - 1)}

\* ws.iter_rows() yields rows of one width; the rows of an .ods table need not agree.
WellFormed(fmt, s) ==
    fmt = "xlsx" => \A a, b \in DOMAIN s : Len(s[a]) = Len(s[b])

InitConv ==
    /\ format \in {"xlsx", "ods"}
    /\ sheet \in Sheets(MaxSheetRows)
    /\ WellFormed(format, sheet)
    /\ row_idx = 1
    /\ prompt_cards = <<>>
    /\ response_cards = <<>>
    /\ out = [which \in {"prompt", "response"} |-> NotWritten]
    /\ cpc = "load"
    /\ IdleTags
    /\ IdleRun

\* Lines 119-121 / 203-205: "Error: Empty spreadsheet", return.
EmptySpreadsheet ==
    /\ cpc = "load"
    /\ sheet = <<>>
    /\ cpc' = "returned"
    /\ UNCHANGED <<format, sheet, row_idx, prompt_cards, response_cards, out, tvars, rvars>>

\* Lines 128-166 / 212-249: one iteration of the loop over the rows.
ConvertRow ==
    /\ cpc = "load"
    /\ sheet # <<>>
    /\ row_idx <= Len(sheet)
    /\ prompt_cards' = prompt_cards \o row_cards(format, sheet[row_idx], "prompt")
    /\ response_cards' = response_cards \o row_cards(format, sheet[row_idx], "response")
    /\ row_idx' = row_idx + 1
    /\ UNCHANGED <<format, sheet, out, cpc, tvars, rvars>>

\* Lines 168-182 / 251-265: each card list that is not empty is written.
WriteCsv ==
    /\ cpc = "load"
    /\ sheet # <<>>
    /\ row_idx > Len(sheet)
    /\ out' = [which \in {"prompt", "response"} |->
                  LET cards == IF which = "prompt" THEN prompt_cards ELSE response_cards
                  IN  IF cards # <<>> THEN File(csv_rows(cards)) ELSE out[which]]
    /\ cpc' = "done"
    /\ UNCHANGED <<format, sheet, row_idx, prompt_cards, response_cards, tvars, rvars>>

NextConv == EmptySpreadsheet \/ ConvertRow \/ WriteCsv

SpecConv == InitConv /\ [][NextConv]_vars

-----------------------------------------------------------------------------
(* Properties of process_file and of the runs of add_tags.py (Spec).       *)

\* Every process_file call made so far: the rows it read and the rows it wrote.
Passes == UNION {Range(passes[f]) : f \in Range(FILENAMES)}

\* Indices of the data rows that are not empty and have a non-empty first cell.
Kept(rows) == {i \in 2..Len(rows) : rows[i] # <<>> /\ rows[i][1] # <<>>}

\* The j-th of them, in the order of the table.
NthKept(rows, j) ==
    CHOOSE i \in Kept(rows) : Cardinality({m \in Kept(rows) : m < i}) = j - 1

\* The tags a written row carries: its non-empty cells after the level.
RowTagSet(row) == {row[k] : k \in 3..Len(row)} \ {""}

\* Severity as a rank: the level of a tag set is its highest-ranking tag's.
Rank(tag) ==
    IF tag \in {"Sexually Explicit", "Sexist", "Racist", "Violence"} THEN 3
    ELSE IF tag = "Drugs" THEN 2
    ELSE IF tag = "Profanity" THEN 1
    ELSE 0

Severity(tag_set) ==
    LET top == CHOOSE n \in 0..3 :
                   /\ n = 0 \/ \E t \in tag_set : Rank(t) = n
                   /\ \A t \in tag_set : Rank(t) <= n
    IN  <<"basic", "mild", "medium", "severe">>[top + 1]

\* C1 (as claimed): a second process_file pass over the table the first pass wrote
\* writes the same table again, header row included.
C1_Idempotent ==
    \A f \in Range(FILENAMES) : \A k \in 2..Len(passes[f]) :
        passes[f][k].rows = passes[f][k - 1].output_rows
            => passes[f][k].output_rows = passes[f][k - 1].output_rows

\* C2 (as claimed): when a run aborts on a missing file, both files are as the run
\* found them.
C2_NoPartialWrite == pc = "aborted" => files = before

\* C3: in every written data row the level cell is the severity of the row's
\* tags (severe over medium over mild over basic), and a row without tags is
\* basic with ten empty tag cells.
C3_LevelIsSeverity ==
    \A p \in Passes : \A i \in 2..Len(p.output_rows) :
        LET row == p.output_rows[i]
        IN  /\ row[2] = Severity(RowTagSet(row))
            /\ RowTagSet(row) = {}
                   => row[2] = "basic" /\ SubSeq(row, 3, Len(row)) = Repeat("", TagColumns)

\* A written row that is severe although it also carries Profanity.
C3_Witness ==
    \E p \in Passes : \E i \in 2..Len(p.output_rows) :
        /\ p.output_rows[i][2] = "severe"
        /\ "Profanity" \in RowTagSet(p.output_rows[i])

\* C6 (as claimed): a data row with fewer than 12 columns, or without a first
\* cell, is skipped, so the written table has at most as many data rows as the
\* table read has rows of 12 or more columns with a first cell.
C6_ShortRowsSkipped ==
    \A p \in Passes :
        p.rows # <<>> =>
            Len(p.output_rows) - 1
                <= Cardinality({i \in Kept(p.rows) : Len(p.rows[i]) >= TagColumns + 2})

\* C6 (amended): a data row is skipped exactly when it is empty or its first cell
\* is empty, whatever its number of columns; every other data row, also one of
\* fewer than 12 columns, is written, and the run goes on.
C6_OnlyEmptyRowsSkipped ==
    \A p \in Passes :
        p.rows # <<>> =>
            /\ Len(p.output_rows) - 1 = Cardinality(Kept(p.rows))
            /\ \A i \in Kept(p.rows) :
                   \E j \in 2..Len(p.output_rows) : p.output_rows[j][1] = p.rows[i][1]

\* A pass that wrote a row of fewer than 12 columns and skipped another row.
C6_Witness ==
    \E p \in Passes :
        /\ \E i \in Kept(p.rows) :
               /\ Len(p.rows[i]) < TagColumns + 2
               /\ \E j \in 2..Len(p.output_rows) : p.output_rows[j][1] = p.rows[i][1]
        /\ \E i \in 2..Len(p.rows) : i \notin Kept(p.rows)
        /\ Len(p.output_rows) = 2

\* C7 (as claimed): every written row, the header row too, has exactly 12 cells,
\* and the header row starts with the first column name read and 'Level'.
C7_TwelveCells ==
    \A p \in Passes :
        /\ \A i \in 1..Len(p.output_rows) : Len(p.output_rows[i]) = TagColumns + 2
        /\ p.rows # <<>> /\ p.rows[1] # <<>> =>
               p.output_rows[1][1] = p.rows[1][1] /\ p.output_rows[1][2] = "Level"

\* C8: the written data rows are, in order, the data rows read that are not empty
\* and have a non-empty first cell, each with its first cell unchanged.
C8_RowsCorrespond ==
    \A p \in Passes :
        /\ p.rows = <<>> => p.output_rows = <<>>
        /\ p.rows # <<>> =>
               /\ Len(p.output_rows) = 1 + Cardinality(Kept(p.rows))
               /\ \A j \in 1..Cardinality(Kept(p.rows)) :
                      p.output_rows[j + 1][1] = p.rows[NthKept(p.rows, j)][1]

\* A pass over two retained rows of different texts, one of them with further
\* cells, written in the order read.
C8_Witness ==
    \E p \in Passes :
        /\ Kept(p.rows) = {2, 3}
        /\ p.rows[2][1] # p.rows[3][1]
        /\ Len(p.rows[2]) > 1 \/ Len(p.rows[3]) > 1
        /\ p.output_rows[2][1] = p.rows[2][1]
        /\ p.output_rows[3][1] = p.rows[3][1]

-----------------------------------------------------------------------------
(* Properties of check_tags (SpecTags).  Whole-word occurrence is stated   *)
(* here over the words of the text, not over the regular expressions.      *)

\* The fixed order of the categories.
CategoryNames ==
    <<"Sexually Explicit", "Sexist", "Racist", "Profanity", "Violence", "Drugs">>

CategoryKeywords ==
    <<SEXUALLY_EXPLICIT_KEYWORDS, SEXIST_KEYWORDS, RACIST_KEYWORDS,
      PROFANITY_KEYWORDS, VIOLENCE_KEYWORDS, DRUGS_KEYWORDS>>

\* The exclusion pattern of each category; Sexist and Profanity carry none.
CategoryExclude ==
    <<SEXUALLY_EXPLICIT_EXCLUDE, <<>>, RACIST_EXCLUDE, <<>>, VIOLENCE_EXCLUDE, DRUGS_EXCLUDE>>

Excluded(c, t) == Search(CategoryExclude[c], t)

\* The words of a trigger phrase: the phrase cut at its spaces.
RECURSIVE PhraseWords(_)
PhraseWords(phrase) ==
    IF \A k \in DOMAIN phrase : phrase[k] # " " THEN <<phrase>>
    ELSE LET n == CHOOSE k \in DOMAIN phrase :
                      phrase[k] = " " /\ \A m \in 1..(k - 1) : phrase[m] # " "
         IN  <<SubSeq(phrase, 1, n - 1)>> \o PhraseWords(SubSeq(phrase, n + 1, Len(phrase)))

RECURSIVE PhrasesOf(_)
PhrasesOf(keywords) ==
    IF keywords = <<>> THEN <<>>
    ELSE <<PhraseWords(Head(keywords))>> \o PhrasesOf(Tail(keywords))

CategoryPhrases ==
    <<PhrasesOf(CategoryKeywords[1]), PhrasesOf(CategoryKeywords[2]),
      PhrasesOf(CategoryKeywords[3]), PhrasesOf(CategoryKeywords[4]),
      PhrasesOf(CategoryKeywords[5]), PhrasesOf(CategoryKeywords[6])>>

\* A word of the text: a maximal run of word characters, from i to WordEnd(t, i).
IsWordStart(t, i) == IsWordChar(t[i]) /\ (i = 1 \/ ~IsWordChar(t[i - 1]))

WordEnd(t, i) ==
    CHOOSE j \in i..Len(t) :
        /\ \A k \in i..j : IsWordChar(t[k])
        /\ j = Len(t) \/ ~IsWordChar(t[j + 1])

\* What may stand between two words of a phrase: exactly one space ("space"),
\* or any non-empty run of whitespace ("whitespace").
GapOk(gap, mode) ==
    IF mode = "space" THEN gap = <<" ">>
    ELSE gap # <<>> /\ \A k \in DOMAIN gap : gap[k] \in Whitespace

\* The words[n..] are the consecutive words of t that start at position i.
RECURSIVE PhraseAt(_, _, _, _, _)
PhraseAt(words, n, t, i, mode) ==
    /\ IsWordStart(t, i)
    /\ LET j == WordEnd(t, i)
       IN  /\ [k \in 1..(j - i + 1) |-> Lower(t[i + k - 1])] = words[n]
           /\ \/ n = Len(words)
              \/ \E k \in (j + 2)..Len(t) :
                     /\ GapOk(SubSeq(t, j + 1, k - 1), mode)
                     /\ PhraseAt(words, n + 1, t, k, mode)

\* Some trigger phrase of category c occurs in t as whole words.
TriggerOccurs(c, t, mode) ==
    \E i \in 1..Len(t) :
        /\ IsWordStart(t, i)
        /\ \E p \in DOMAIN CategoryPhrases[c] : PhraseAt(CategoryPhrases[c][p], 1, t, i, mode)

\* C4: a category whose exclusion pattern the text matches is not returned, a
\* trigger phrase in the text notwithstanding, and every other category is
\* returned as if there were no such exclusion.
C4_ExclusionSuppressesItsCategoryOnly ==
    phase = "tagged" =>
        \A c \in DOMAIN CategoryNames :
            Excluded(c, text) =>
                /\ CategoryNames[c] \notin Range(tags)
                /\ \A d \in DOMAIN CategoryNames \ {c} :
                       ~Excluded(d, text) /\ TriggerOccurs(d, text, "space")
                           => CategoryNames[d] \in Range(tags)

\* A text that matches the Sexually Explicit exclusion and holds a trigger of
\* that category, which is also a Profanity trigger: only Profanity is returned.
C4_Witness ==
    /\ phase = "tagged"
    /\ Excluded(1, text)
    /\ TriggerOccurs(1, text, "space")
    /\ "Sexually Explicit" \notin Range(tags)
    /\ "Profanity" \in Range(tags)

\* C5 (as claimed): without a match of its exclusion pattern, a category is
\* returned exactly when one of its trigger phrases occurs as whole words,
\* whatever whitespace separates the words of the phrase.
C5_WholeWordsAnyWhitespace ==
    phase = "tagged" =>
        \A c \in DOMAIN CategoryNames :
            ~Excluded(c, text) =>
                (CategoryNames[c] \in Range(tags) <=> TriggerOccurs(c, text, "whitespace"))

\* C5 (amended): without a match of its exclusion pattern, a category is returned
\* exactly when one of its trigger phrases occurs, case-insensitively, as whole
\* words separated by exactly one space each.
C5_WholeWordsSingleSpace ==
    phase = "tagged" =>
        \A c \in DOMAIN CategoryNames :
            ~Excluded(c, text) =>
                (CategoryNames[c] \in Range(tags) <=> TriggerOccurs(c, text, "space"))

\* A text with a two-word trigger phrase, its words one space apart, tagged
\* with the category of the phrase.
C5_Witness ==
    /\ phase = "tagged"
    /\ \E c \in DOMAIN CategoryNames : \E p \in DOMAIN CategoryPhrases[c] :
           /\ Len(CategoryPhrases[c][p]) > 1
           /\ \E i \in 1..Len(text) : PhraseAt(CategoryPhrases[c][p], 1, text, i, "space")
           /\ tags = <<CategoryNames[c]>>

\* C9: the tags returned are a subsequence of the fixed category order, each at
\* most once, and a text of whitespace only has no tags.
C9_FixedOrder ==
    phase = "tagged" =>
        /\ \A a \in DOMAIN tags : tags[a] \in Range(CategoryNames)
        /\ \A a, b \in DOMAIN tags :
               a < b => \E m, n \in DOMAIN CategoryNames :
                            m < n /\ CategoryNames[m] = tags[a] /\ CategoryNames[n] = tags[b]
        /\ (\A k \in DOMAIN text : text[k] \in Whitespace) => tags = <<>>

\* A text whose Drugs trigger comes before its Sexually Explicit and Profanity
\* trigger: the tags are in category order all the same.
C9_Witness ==
    /\ phase = "tagged"
    /\ text = <<"l", "s", "d", " ", "a", "s", "s">>
    /\ tags = <<"Sexually Explicit", "Profanity", "Drugs">>

-----------------------------------------------------------------------------
(* Properties of the converter (SpecConv).                                 *)

\* The rows after the header row all hold a non-empty card text first.
CardRowsOk(rows) == \A i \in 2..Len(rows) : rows[i] # <<>> /\ rows[i][1] # <<>>

\* C10 (as claimed): every file the converter writes starts with a header row of
\* 12 columns, followed only by rows whose first cell is a non-empty card text.
C10_TwelveColumnHeader ==
    \A which \in DOMAIN out :
        out[which].exists =>
            /\ Len(out[which].rows[1]) = 12
            /\ CardRowsOk(out[which].rows)

\* C10 (amended): every file the converter writes starts with a header row of 11
\* columns, 'Card Text' and 'Tag1' to 'Tag10' without a Level column, followed
\* only by rows whose first cell is a non-empty card text.
C10_ElevenColumnHeader ==
    \A which \in DOMAIN out :
        out[which].exists =>
            /\ Len(out[which].rows) >= 2
            /\ Len(out[which].rows[1]) = 11
            /\ out[which].rows[1][1] = "Card Text"
            /\ "Level" \notin Range(out[which].rows[1])
            /\ CardRowsOk(out[which].rows)

\* Both files written, from a sheet with a prompt row and a response row.
C10_Witness ==
    /\ cpc = "done"
    /\ \A which \in DOMAIN out : out[which].exists /\ Len(out[which].rows) = 2

=============================================================================
